---- MODULE Spec2Model ----
(***************************************************************************)
(* OrderMaster client: the apartment modal (create/edit form, employee     *)
(* checklist, employee search, inline employee creation), its variant      *)
(* without inline creation, the statistics view and the employee card.     *)
(*                                                                         *)
(* Text that the code inspects character by character (employee names and  *)
(* the search text) is a sequence of one-character strings; text that the  *)
(* code only tests for emptiness and copies (name, dates, times, notes) is *)
(* a TLA+ string.                                                          *)
(***************************************************************************)
EXTENDS Integers, Sequences, FiniteSets, TLC

\* ------------------------------------------------------------------ bounds
NumEmployees == 2      \* employees known before any inline creation
MaxEmployees == 3      \* the employee list stops growing at this length
MaxInFlight  == 2      \* create-employee requests awaiting an answer
MaxLen       == 3      \* longest employee_ids array handed to the handler
MaxCount     == 2      \* largest count in a statistics snapshot

\* ------------------------------------------------------------ JS helpers
Null == "<null>"       \* null / undefined of a text property

\* x || d for a text property
OrElse(x, d) == IF x = Null \/ x = "" THEN d ELSE x

\* Array.prototype.includes
ArrIncludes(arr, x) == \E i \in 1..Len(arr) : arr[i] = x

Range(arr) == {arr[i] : i \in 1..Len(arr)}

\* one character of String.prototype.toLowerCase
LowerChar(c) ==
  CASE c = "A" -> "a"
    [] c = "B" -> "b"
    [] c = "L" -> "l"
    [] c = "O" -> "o"
    [] OTHER   -> c

\* String.prototype.toLowerCase
ToLowerCase(s) == [i \in 1..Len(s) |-> LowerChar(s[i])]

\* String.prototype.includes
StrIncludes(hay, needle) ==
  \E i \in 0..(Len(hay) - Len(needle)) :
     SubSeq(hay, i + 1, i + Len(needle)) = needle

\* `${employee.first_name} ${employee.last_name}`
FullName(e) == e.first_name \o <<" ">> \o e.last_name

\* ---------------------------------------------------------------- fixtures
FirstNames == << <<"A","l">>, <<"B","o">>, <<"L","a">> >>
LastNames  == << <<"B","o">>, <<"L","a">>, <<"A","l">> >>

\* the i-th employee of the employee list
EmployeeRec(i) ==
  [id |-> i,
   first_name |-> FirstNames[((i - 1) % 3) + 1],
   last_name  |-> LastNames[((i - 1) % 3) + 1]]

InitialEmployees == [i \in 1..NumEmployees |-> EmployeeRec(i)]

\* the apartments the parent page can hand to the modal; employees holds the
\* ids of the assigned employee records
Apartments ==
  << [name |-> "Attico", cleaning_date |-> "2024-05-20",
      start_time |-> "09:00", end_time |-> "11:00",
      status |-> "In Corso", payment_status |-> "Pagato",
      notes |-> "chiavi", employees |-> <<1, 2>>],
     [name |-> "Bilocale", cleaning_date |-> "2024-06-01",
      start_time |-> Null, end_time |-> Null,
      status |-> "Fatto", payment_status |-> "Da Pagare",
      notes |-> Null, employees |-> <<2>>],
     [name |-> "Attico", cleaning_date |-> "2024-05-20",
      start_time |-> Null, end_time |-> "11:00",
      status |-> "Annullato", payment_status |-> "Da Pagare",
      notes |-> Null, employees |-> <<>>] >>

NoApartment == 0       \* the apartment prop is undefined: create mode
ApartmentProps == 0..Len(Apartments)

\* what the user can type or pick in the main form
NameInputs   == {"", "Bilocale"}
DateInputs   == {"", "2024-05-20"}
TimeInputs   == {"", "09:00"}
EndInputs    == {"", "11:00"}
NotesInputs  == {"", "chiavi"}
StatusItems  == {"Da Fare", "In Corso", "Fatto"}
PaymentItems == {"Da Pagare", "Pagato"}
SearchInputs == {<<>>, <<"A","L">>, <<"o"," ","l">>}

\* ------------------------------------------------------------------- state
VARIABLES
  isOpen,           \* prop: the modal is shown
  apartment,        \* prop: index into Apartments, or NoApartment
  employees,        \* prop: the employee list
  form,             \* values of the react-hook-form instance
  employeeSearch,   \* useState: search text
  showAddEmployee,  \* useState: the new-employee sub-form is disclosed
  newEmployee,      \* useState: {first_name, last_name} of the sub-form
  inflight,         \* running handleAddNewEmployee calls, in click order
  calls,            \* calls made by the last step (onSubmit, toast, api)
  vform,            \* form values of the variant without inline creation
  vcalls,           \* calls made by the variant in the last step
  last,             \* the last step taken
  query,            \* useQuery: state of the ['/api/statistics'] query
  viewMounted,      \* the statistics page is on screen
  card              \* props of the employee card on screen

vars == <<isOpen, apartment, employees, form, employeeSearch,
          showAddEmployee, newEmployee, inflight, calls, vform, vcalls,
          last, query, viewMounted, card>>

\* ------------------------------------------------------ statistics view
Undefined == [kind |-> "undefined"]    \* no data has arrived yet
NullData  == [kind |-> "null"]         \* the API answered null

BusiestDates == {"N/A", "2024-05-20", "2024-06-01"}

\* the statistics snapshots the API can answer with
Snapshots ==
  [kind : {"snapshot"},
   totalOrders : {MaxCount},
   topEmployee : [name : {"Maria"}, count : 0..MaxCount],
   busiestDay : [date : BusiestDates, count : 0..MaxCount]]

\* the query before the page was ever visited
NoQuery == [status |-> "pending", fetchStatus |-> "idle", data |-> Undefined]

\* useQuery: isLoading
isLoading(q) == q.status = "pending" /\ q.fetchStatus = "fetching"

\* useQuery: isError
isError(q) == q.status = "error"

\* !stats
NoStats(q) == q.data = Undefined \/ q.data = NullData

\* Statistics that tests isError || !stats before isLoading
Statistics_ErrorFirst(q) ==
  IF isError(q) \/ NoStats(q) THEN {"errorMessage"}
  ELSE IF isLoading(q) THEN {"loadingIndicator"}
  ELSE {"metricCards", "charts"}

\* Statistics that tests !stats alone
Statistics_NoIsError(q) ==
  IF isLoading(q) THEN {"loadingIndicator"}
  ELSE IF NoStats(q) THEN {"errorMessage"}
  ELSE {"metricCards", "charts"}

\* Statistics: what the component returns for a query state
Statistics(q) ==
  IF isLoading(q) THEN {"loadingIndicator"}
  ELSE IF isError(q) \/ NoStats(q) THEN {"errorMessage"}
  ELSE {"metricCards", "charts"}

\* formatDateForDisplay of @/lib/date-utils: the display form of an ISO
\* date; a text that is no date has none
formatDateForDisplay(d) ==
  CASE d = "2024-05-20" -> "20/05/2024"
    [] d = "2024-06-01" -> "01/06/2024"
    [] OTHER -> "Invalid Date"

\* formattedBusiestDay computed without the test for 'N/A'
formattedBusiestDay_Unguarded(stats) ==
  [text |-> formatDateForDisplay(stats.busiestDay.date),
   formatted |-> <<stats.busiestDay.date>>]

\* const formattedBusiestDay: the text shown, and the arguments handed to
\* formatDateForDisplay while computing it
formattedBusiestDay(stats) ==
  IF stats.busiestDay.date # "N/A"
  THEN [text |-> formatDateForDisplay(stats.busiestDay.date),
        formatted |-> <<stats.busiestDay.date>>]
  ELSE [text |-> "N/A", formatted |-> <<>>]

\* {count === 1 ? 'ordine' : 'ordini'} of the top-employee card
topEmployeeLabel(stats) ==
  IF stats.topEmployee.count = 1 THEN "ordine" ELSE "ordini"

\* {count === 1 ? 'ordine' : 'ordini'} of the busiest-day card
busiestDayLabel(stats) ==
  IF stats.busiestDay.count = 1 THEN "ordine" ELSE "ordini"

StatsUnchanged == UNCHANGED <<query, viewMounted, card>>

\* ------------------------------------------------------------- main form
\* reset values whose create-mode status is left empty
FormValues_EmptyStatus(a) ==
  IF a = NoApartment
  THEN [name |-> "", cleaning_date |-> "", start_time |-> "",
        end_time |-> "", status |-> "",
        payment_status |-> "Da Pagare", notes |-> "",
        employee_ids |-> <<>>]
  ELSE [name |-> OrElse(Apartments[a].name, ""),
        cleaning_date |-> OrElse(Apartments[a].cleaning_date, ""),
        start_time |-> OrElse(Apartments[a].start_time, ""),
        end_time |-> OrElse(Apartments[a].end_time, ""),
        status |-> OrElse(Apartments[a].status, "Da Fare"),
        payment_status |-> OrElse(Apartments[a].payment_status, "Da Pagare"),
        notes |-> OrElse(Apartments[a].notes, ""),
        employee_ids |-> Apartments[a].employees]

\* the object given to useForm defaultValues and to form.reset
FormValues(a) ==
  IF a = NoApartment
  THEN [name |-> "", cleaning_date |-> "", start_time |-> "",
        end_time |-> "", status |-> "Da Fare",
        payment_status |-> "Da Pagare", notes |-> "",
        employee_ids |-> <<>>]
  ELSE [name |-> OrElse(Apartments[a].name, ""),
        cleaning_date |-> OrElse(Apartments[a].cleaning_date, ""),
        start_time |-> OrElse(Apartments[a].start_time, ""),
        end_time |-> OrElse(Apartments[a].end_time, ""),
        status |-> OrElse(Apartments[a].status, "Da Fare"),
        payment_status |-> OrElse(Apartments[a].payment_status, "Da Pagare"),
        notes |-> OrElse(Apartments[a].notes, ""),
        employee_ids |-> Apartments[a].employees]

\* the variant's useForm defaultValues and form.reset argument
VFormValues(a) ==
  IF a = NoApartment
  THEN [name |-> "", cleaning_date |-> "", start_time |-> "",
        end_time |-> "", status |-> "Da Fare",
        payment_status |-> "Da Pagare", notes |-> "",
        employee_ids |-> <<>>]
  ELSE [name |-> OrElse(Apartments[a].name, ""),
        cleaning_date |-> OrElse(Apartments[a].cleaning_date, ""),
        start_time |-> OrElse(Apartments[a].start_time, ""),
        end_time |-> OrElse(Apartments[a].end_time, ""),
        status |-> OrElse(Apartments[a].status, "Da Fare"),
        payment_status |-> OrElse(Apartments[a].payment_status, "Da Pagare"),
        notes |-> OrElse(Apartments[a].notes, ""),
        employee_ids |-> Apartments[a].employees]

\* formSchema without the rule on cleaning_date
formSchema_NoDateRule(v) ==
  /\ v.name # ""
  /\ v.status \in {"Da Fare", "In Corso", "Fatto"}
  /\ v.payment_status \in {"Da Pagare", "Pagato"}

\* formSchema.safeParse(values).success
formSchema(v) ==
  /\ v.name # ""
  /\ v.cleaning_date # ""
  /\ v.status \in {"Da Fare", "In Corso", "Fatto"}
  /\ v.payment_status \in {"Da Pagare", "Pagato"}

\* the variant's formSchema
VformSchema(v) ==
  /\ v.name # ""
  /\ v.cleaning_date # ""
  /\ v.status \in {"Da Fare", "In Corso", "Fatto"}
  /\ v.payment_status \in {"Da Pagare", "Pagato"}

\* the filter with toLowerCase applied to the name but not to the search text
filteredEmployees_RawSearch(emps, search) ==
  IF search = <<>>
  THEN emps
  ELSE SelectSeq(emps, LAMBDA e :
         StrIncludes(ToLowerCase(FullName(e)), search))

\* useMemo: the employees listed in the checklist
filteredEmployees(emps, search) ==
  IF search = <<>>
  THEN emps
  ELSE SelectSeq(emps, LAMBDA e :
         StrIncludes(ToLowerCase(FullName(e)), ToLowerCase(search)))

RECURSIVE RemoveFirst(_, _)
RemoveFirst(value, id) ==
  IF value = <<>> THEN <<>>
  ELSE IF Head(value) = id THEN Tail(value)
  ELSE <<Head(value)>> \o RemoveFirst(Tail(value), id)

\* onCheckedChange that splices out only the first occurrence on uncheck
onCheckedChange_RemoveFirst(value, id, checked) ==
  IF checked
  THEN value \o <<id>>
  ELSE RemoveFirst(value, id)

\* Checkbox.onCheckedChange: the array handed to field.onChange
onCheckedChange(value, id, checked) ==
  IF checked
  THEN value \o <<id>>
  ELSE SelectSeq(value, LAMBDA x : x # id)

\* a variant that puts a newly checked id at the front of the array
VOnCheckedChange_Prepend(value, id, checked) ==
  IF checked
  THEN <<id>> \o value
  ELSE SelectSeq(value, LAMBDA x : x # id)

\* the variant's Checkbox.onCheckedChange
VOnCheckedChange(value, id, checked) ==
  IF checked
  THEN value \o <<id>>
  ELSE SelectSeq(value, LAMBDA x : x # id)

\* checked computed as indexOf(id) > 0, which misses the first element
CheckboxChecked_IndexOfBug(e) ==
  \E i \in 2..Len(form.employee_ids) : form.employee_ids[i] = e.id

\* the checked prop of the checkbox rendered for employee e
CheckboxChecked(e) == ArrIncludes(form.employee_ids, e.id)

\* ids of the employees that have a checkbox on screen
DisplayedIds ==
  {e.id : e \in Range(filteredEmployees(employees, employeeSearch))}

\* ids of the checkboxes that are on screen and checked
CheckedIds ==
  {e.id : e \in {x \in Range(filteredEmployees(employees, employeeSearch)) :
                   CheckboxChecked(x)}}

NoCalls == <<>>
NoCard == [employee |-> [id |-> 0], hasOnClick |-> FALSE]   \* no card shown
EmptyEmployee == [first_name |-> <<>>, last_name |-> <<>>]

\* the component as mounted by the parent with props (o, a)
Mounted(o, a) ==
  /\ isOpen = o
  /\ apartment = a
  /\ employees = InitialEmployees
  /\ form = FormValues(a)
  /\ vform = VFormValues(a)
  /\ employeeSearch = <<>>
  /\ showAddEmployee = FALSE
  /\ newEmployee = EmptyEmployee
  /\ inflight = <<>>
  /\ calls = NoCalls
  /\ vcalls = NoCalls
  /\ last = [op |-> "mount"]
  /\ query = NoQuery
  /\ viewMounted = FALSE
  /\ card = NoCard

Init == \E o \in BOOLEAN, a \in ApartmentProps : Mounted(o, a)

SubFlowUnchanged == UNCHANGED <<showAddEmployee, newEmployee, inflight>>

\* an effect that also empties the two name inputs of the sub-form
SetProps_ResetsNewEmployee(o, a) ==
  /\ <<o, a>> # <<isOpen, apartment>>
  /\ isOpen' = o
  /\ apartment' = a
  /\ IF o
     THEN /\ form' = FormValues(a)
          /\ vform' = VFormValues(a)
          /\ employeeSearch' = <<>>
          /\ showAddEmployee' = FALSE
          /\ newEmployee' = EmptyEmployee
     ELSE UNCHANGED <<form, vform, employeeSearch, showAddEmployee,
                      newEmployee>>
  /\ calls' = NoCalls
  /\ vcalls' = NoCalls
  /\ StatsUnchanged
  /\ last' = [op |-> "props", from |-> apartment, wasOpen |-> isOpen,
              dirty |-> (form # FormValues(apartment)),
              cleared |-> (o /\ employeeSearch # <<>> /\ showAddEmployee)]
  /\ UNCHANGED <<employees, inflight>>

\* the effect with apartment missing from its dependencies
SetProps_NoApartmentDep(o, a) ==
  /\ <<o, a>> # <<isOpen, apartment>>
  /\ isOpen' = o
  /\ apartment' = a
  /\ IF o /\ ~isOpen
     THEN /\ form' = FormValues(a)
          /\ vform' = VFormValues(a)
          /\ employeeSearch' = <<>>
          /\ showAddEmployee' = FALSE
     ELSE UNCHANGED <<form, vform, employeeSearch, showAddEmployee>>
  /\ calls' = NoCalls
  /\ vcalls' = NoCalls
  /\ StatsUnchanged
  /\ last' = [op |-> "props", from |-> apartment, wasOpen |-> isOpen,
              dirty |-> (form # FormValues(apartment)),
              cleared |-> (o /\ employeeSearch # <<>> /\ showAddEmployee)]
  /\ UNCHANGED <<employees, newEmployee, inflight>>

\* The parent re-renders the modal with other props; the useEffect with
\* dependencies [isOpen, apartment, form.reset] then runs.
SetProps(o, a) ==
  /\ <<o, a>> # <<isOpen, apartment>>
  /\ isOpen' = o
  /\ apartment' = a
  /\ IF o
     THEN /\ form' = FormValues(a)
          /\ vform' = VFormValues(a)
          /\ employeeSearch' = <<>>
          /\ showAddEmployee' = FALSE
     ELSE UNCHANGED <<form, vform, employeeSearch, showAddEmployee>>
  /\ calls' = NoCalls
  /\ vcalls' = NoCalls
  /\ StatsUnchanged
  /\ last' = [op |-> "props", from |-> apartment, wasOpen |-> isOpen,
              dirty |-> (form # FormValues(apartment)),
              cleared |-> (o /\ employeeSearch # <<>> /\ showAddEmployee)]
  /\ UNCHANGED <<employees, newEmployee, inflight>>

\* field.onChange of a text input or of a select
SetField(f, v) ==
  /\ isOpen
  /\ form' = [form EXCEPT ![f] = v]
  /\ vform' = [vform EXCEPT ![f] = v]
  /\ calls' = NoCalls
  /\ vcalls' = NoCalls
  /\ StatsUnchanged
  /\ last' = [op |-> "edit"]
  /\ UNCHANGED <<isOpen, apartment, employees, employeeSearch>>
  /\ SubFlowUnchanged

EditField ==
  \/ \E v \in NameInputs : SetField("name", v)
  \/ \E v \in DateInputs : SetField("cleaning_date", v)
  \/ \E v \in TimeInputs : SetField("start_time", v)
  \/ \E v \in EndInputs : SetField("end_time", v)
  \/ \E v \in StatusItems : SetField("status", v)
  \/ \E v \in PaymentItems : SetField("payment_status", v)
  \/ \E v \in NotesInputs : SetField("notes", v)

\* The user clicks the checkbox of a listed employee: the checkbox reports
\* the negation of its checked prop.
ToggleCheckbox(i) ==
  /\ isOpen
  /\ i \in 1..Len(filteredEmployees(employees, employeeSearch))
  /\ LET e == filteredEmployees(employees, employeeSearch)[i]
         checked == ~CheckboxChecked(e)
     IN /\ form' = [form EXCEPT !.employee_ids =
                      onCheckedChange(form.employee_ids, e.id, checked)]
        /\ vform' = [vform EXCEPT !.employee_ids =
                      VOnCheckedChange(vform.employee_ids, e.id,
                                       ~ArrIncludes(vform.employee_ids, e.id))]
        /\ StatsUnchanged
        /\ last' = [op |-> "toggle", id |-> e.id, checked |-> checked]
  /\ calls' = NoCalls
  /\ vcalls' = NoCalls
  /\ UNCHANGED <<isOpen, apartment, employees, employeeSearch>>
  /\ SubFlowUnchanged

\* a search input that also drops from employee_ids the employees it hides
setEmployeeSearch_PrunesHidden(s) ==
  /\ isOpen
  /\ employeeSearch' = s
  /\ form' = [form EXCEPT !.employee_ids =
                SelectSeq(form.employee_ids, LAMBDA id :
                  \E e \in Range(filteredEmployees(employees, s)) : e.id = id)]
  /\ calls' = NoCalls
  /\ vcalls' = NoCalls
  /\ StatsUnchanged
  /\ last' = [op |-> "search"]
  /\ UNCHANGED <<isOpen, apartment, employees, vform>>
  /\ SubFlowUnchanged

\* onChange of the search input
setEmployeeSearch(s) ==
  /\ isOpen
  /\ employeeSearch' = s
  /\ calls' = NoCalls
  /\ vcalls' = NoCalls
  /\ StatsUnchanged
  /\ last' = [op |-> "search"]
  /\ UNCHANGED <<isOpen, apartment, employees, form, vform>>
  /\ SubFlowUnchanged

\* form.handleSubmit(onSubmit): the resolver validates the values and
\* onSubmit is called with them when they pass
HandleSubmit ==
  /\ isOpen
  /\ calls' = IF formSchema(form)
              THEN <<[fn |-> "onSubmit", arg |-> form]>>
              ELSE NoCalls
  /\ vcalls' = IF VformSchema(vform)
               THEN <<[fn |-> "onSubmit", arg |-> vform]>>
               ELSE NoCalls
  /\ StatsUnchanged
  /\ last' = [op |-> "submit", values |-> form]
  /\ UNCHANGED <<isOpen, apartment, employees, form, vform, employeeSearch>>
  /\ SubFlowUnchanged

\* the X button of the header and the ANNULLA button of the footer
CloseButtons == {"X", "ANNULLA"}

\* onClick={onClose} of either button: the parent's callback is called
\* and no state of the component changes
ClickClose(b) ==
  /\ isOpen
  /\ calls' = <<[fn |-> "onClose", arg |-> [button |-> b]]>>
  /\ vcalls' = <<[fn |-> "onClose", arg |-> [button |-> b]]>>
  /\ StatsUnchanged
  /\ last' = [op |-> "close", button |-> b]
  /\ UNCHANGED <<isOpen, apartment, employees, form, vform, employeeSearch>>
  /\ SubFlowUnchanged

NextForm ==
  \/ \E o \in BOOLEAN, a \in ApartmentProps : SetProps(o, a)
  \/ \E b \in CloseButtons : ClickClose(b)
  \/ EditField
  \/ \E i \in 1..MaxEmployees : ToggleCheckbox(i)
  \/ \E s \in SearchInputs : setEmployeeSearch(s)
  \/ HandleSubmit

SpecForm == Init /\ [][NextForm]_vars

\* ------------------------------------------- inline employee creation
\* what the user can type in the new-employee sub-form
FirstNameInputs == {<<>>, <<" ">>, <<"L","a">>}
LastNameInputs  == {<<>>, <<"A","l">>}

\* z.string().min(1) on both names, first_name alone
newEmployeeSchema_FirstNameOnly(ne) == Len(ne.first_name) >= 1

\* newEmployeeSchema.safeParse(newEmployee).success
newEmployeeSchema(ne) ==
  /\ Len(ne.first_name) >= 1
  /\ Len(ne.last_name) >= 1

ValidationToast ==
  [fn |-> "toast",
   arg |-> [title |-> "Errore",
            description |-> "Nome e cognome sono obbligatori.",
            variant |-> "destructive"]]

SuccessToast ==
  [fn |-> "toast",
   arg |-> [title |-> "Successo",
            description |-> "Dipendente aggiunto con successo."]]

\* error.message of the rejections apiRequest can produce
ErrorMessages == {"500: boom", ""}

\* the template literal `Errore durante l'aggiunta: ${error.message}`
FailureDescription(message) ==
  CASE message = "500: boom" -> "Errore durante l'aggiunta: 500: boom"
    [] message = "" -> "Errore durante l'aggiunta: "

FailureToast(message) ==
  [fn |-> "toast",
   arg |-> [title |-> "Errore",
            description |-> FailureDescription(message),
            variant |-> "destructive"]]

PostEmployee(body) ==
  [fn |-> "apiRequest",
   arg |-> [method |-> "POST", url |-> "/api/employees", data |-> body]]

InvalidateEmployees ==
  [fn |-> "invalidateQueries", arg |-> [queryKey |-> "/api/employees"]]

\* arr without its i-th element
RemoveAt(arr, i) == SubSeq(arr, 1, i - 1) \o SubSeq(arr, i + 1, Len(arr))

MainFormUnchanged == UNCHANGED <<isOpen, apartment, form, vform, vcalls>>

\* the disclosure button: setShowAddEmployee(!showAddEmployee)
ToggleAddEmployee ==
  /\ isOpen
  /\ showAddEmployee' = ~showAddEmployee
  /\ calls' = NoCalls
  /\ StatsUnchanged
  /\ last' = [op |-> "disclose"]
  /\ MainFormUnchanged
  /\ UNCHANGED <<employees, employeeSearch, newEmployee, inflight>>

\* onChange of the Nome / Cognome input
setNewEmployee(f, v) ==
  /\ isOpen
  /\ showAddEmployee
  /\ newEmployee' = [newEmployee EXCEPT ![f] = v]
  /\ calls' = NoCalls
  /\ StatsUnchanged
  /\ last' = [op |-> "type"]
  /\ MainFormUnchanged
  /\ UNCHANGED <<employees, employeeSearch, showAddEmployee, inflight>>

TypeNewEmployee ==
  \/ \E v \in FirstNameInputs : setNewEmployee("first_name", v)
  \/ \E v \in LastNameInputs : setNewEmployee("last_name", v)

\* handleAddNewEmployee that sends nothing while a request is in flight
handleAddNewEmployee_Guarded ==
  /\ isOpen
  /\ showAddEmployee
  /\ IF ~newEmployeeSchema(newEmployee)
     THEN /\ calls' = <<ValidationToast>>
          /\ UNCHANGED inflight
     ELSE IF inflight # <<>>
     THEN /\ calls' = NoCalls
          /\ UNCHANGED inflight
     ELSE /\ calls' = <<PostEmployee(newEmployee)>>
          /\ inflight' = Append(inflight,
                                [body |-> newEmployee, pc |-> "post"])
  /\ StatsUnchanged
  /\ last' = [op |-> "add"]
  /\ MainFormUnchanged
  /\ UNCHANGED <<employees, employeeSearch, showAddEmployee, newEmployee>>

\* handleAddNewEmployee that clears the sub-form as soon as it has sent
\* the request
handleAddNewEmployee_OptimisticReset ==
  /\ isOpen
  /\ showAddEmployee
  /\ IF ~newEmployeeSchema(newEmployee)
     THEN /\ calls' = <<ValidationToast>>
          /\ UNCHANGED <<inflight, newEmployee, showAddEmployee>>
     ELSE /\ Len(inflight) < MaxInFlight
          /\ calls' = <<PostEmployee(newEmployee)>>
          /\ inflight' = Append(inflight,
                                [body |-> newEmployee, pc |-> "post"])
          /\ newEmployee' = EmptyEmployee
          /\ showAddEmployee' = FALSE
  /\ StatsUnchanged
  /\ last' = [op |-> "add"]
  /\ MainFormUnchanged
  /\ UNCHANGED <<employees, employeeSearch>>

\* handleAddNewEmployee up to its first await: validation, then the POST
handleAddNewEmployee ==
  /\ isOpen
  /\ showAddEmployee
  /\ IF ~newEmployeeSchema(newEmployee)
     THEN /\ calls' = <<ValidationToast>>
          /\ UNCHANGED inflight
     ELSE /\ Len(inflight) < MaxInFlight
          /\ calls' = <<PostEmployee(newEmployee)>>
          /\ inflight' = Append(inflight,
                                [body |-> newEmployee, pc |-> "post"])
  /\ StatsUnchanged
  /\ last' = [op |-> "add"]
  /\ MainFormUnchanged
  /\ UNCHANGED <<employees, employeeSearch, showAddEmployee, newEmployee>>

\* apiRequest resolves: the handler goes on to invalidateQueries
ApiRequestResolves(i) ==
  /\ i \in 1..Len(inflight)
  /\ inflight[i].pc = "post"
  /\ inflight' = [inflight EXCEPT ![i].pc = "invalidate"]
  /\ calls' = <<InvalidateEmployees>>
  /\ StatsUnchanged
  /\ last' = [op |-> "postOk"]
  /\ MainFormUnchanged
  /\ UNCHANGED <<employees, employeeSearch, showAddEmployee, newEmployee>>

\* a catch block that also clears the sub-form
ApiRequestRejects_ClearsInput(i, message) ==
  /\ i \in 1..Len(inflight)
  /\ inflight[i].pc = "post"
  /\ inflight' = RemoveAt(inflight, i)
  /\ calls' = <<FailureToast(message)>>
  /\ newEmployee' = EmptyEmployee
  /\ showAddEmployee' = FALSE
  /\ StatsUnchanged
  /\ last' = [op |-> "postFail"]
  /\ MainFormUnchanged
  /\ UNCHANGED <<employees, employeeSearch>>

\* apiRequest rejects: the catch block
ApiRequestRejects(i, message) ==
  /\ i \in 1..Len(inflight)
  /\ inflight[i].pc = "post"
  /\ inflight' = RemoveAt(inflight, i)
  /\ calls' = <<FailureToast(message)>>
  /\ StatsUnchanged
  /\ last' = [op |-> "postFail"]
  /\ MainFormUnchanged
  /\ UNCHANGED <<employees, employeeSearch, showAddEmployee, newEmployee>>

\* a success path that also ticks the checkbox of the employee it created
InvalidateResolves_AutoCheck(i, refetched) ==
  /\ i \in 1..Len(inflight)
  /\ inflight[i].pc = "invalidate"
  /\ refetched => Len(employees) < MaxEmployees
  /\ employees' =
       IF refetched
       THEN Append(employees,
                   [id |-> Len(employees) + 1,
                    first_name |-> inflight[i].body.first_name,
                    last_name |-> inflight[i].body.last_name])
       ELSE employees
  /\ inflight' = RemoveAt(inflight, i)
  /\ calls' = <<SuccessToast>>
  /\ newEmployee' = EmptyEmployee
  /\ showAddEmployee' = FALSE
  /\ StatsUnchanged
  /\ last' = [op |-> "created", refetched |-> refetched,
              overwrote |-> (/\ showAddEmployee
                             /\ newEmployee # EmptyEmployee
                             /\ newEmployee # inflight[i].body)]
  /\ form' = IF refetched
             THEN [form EXCEPT !.employee_ids = @ \o <<Len(employees) + 1>>]
             ELSE form
  /\ UNCHANGED <<isOpen, apartment, vform, vcalls>>
  /\ UNCHANGED employeeSearch

\* a success path that leaves alone names typed after the click
InvalidateResolves_KeepsTyped(i, refetched) ==
  /\ i \in 1..Len(inflight)
  /\ inflight[i].pc = "invalidate"
  /\ refetched => Len(employees) < MaxEmployees
  /\ employees' =
       IF refetched
       THEN Append(employees,
                   [id |-> Len(employees) + 1,
                    first_name |-> inflight[i].body.first_name,
                    last_name |-> inflight[i].body.last_name])
       ELSE employees
  /\ inflight' = RemoveAt(inflight, i)
  /\ calls' = <<SuccessToast>>
  /\ IF newEmployee = inflight[i].body
     THEN /\ newEmployee' = EmptyEmployee
          /\ showAddEmployee' = FALSE
     ELSE UNCHANGED <<newEmployee, showAddEmployee>>
  /\ StatsUnchanged
  /\ last' = [op |-> "created", refetched |-> refetched,
              overwrote |-> (/\ showAddEmployee
                             /\ newEmployee # EmptyEmployee
                             /\ newEmployee # inflight[i].body)]
  /\ MainFormUnchanged
  /\ UNCHANGED employeeSearch

\* invalidateQueries resolves once the employee query has been refetched
\* (refetched: the list now holds the new employee; otherwise the refetch
\* failed and the list is as before); the handler then finishes
InvalidateResolves(i, refetched) ==
  /\ i \in 1..Len(inflight)
  /\ inflight[i].pc = "invalidate"
  /\ refetched => Len(employees) < MaxEmployees
  /\ employees' =
       IF refetched
       THEN Append(employees,
                   [id |-> Len(employees) + 1,
                    first_name |-> inflight[i].body.first_name,
                    last_name |-> inflight[i].body.last_name])
       ELSE employees
  /\ inflight' = RemoveAt(inflight, i)
  /\ calls' = <<SuccessToast>>
  /\ newEmployee' = EmptyEmployee
  /\ showAddEmployee' = FALSE
  /\ StatsUnchanged
  /\ last' = [op |-> "created", refetched |-> refetched,
              overwrote |-> (/\ showAddEmployee
                             /\ newEmployee # EmptyEmployee
                             /\ newEmployee # inflight[i].body)]
  /\ MainFormUnchanged
  /\ UNCHANGED employeeSearch

NextCreate ==
  \/ \E o \in BOOLEAN, a \in ApartmentProps : SetProps(o, a)
  \/ \E b \in CloseButtons : ClickClose(b)
  \/ \E s \in SearchInputs : setEmployeeSearch(s)
  \/ ToggleAddEmployee
  \/ TypeNewEmployee
  \/ handleAddNewEmployee
  \/ \E i \in 1..MaxInFlight : ApiRequestResolves(i)
  \/ \E i \in 1..MaxInFlight, m \in ErrorMessages : ApiRequestRejects(i, m)
  \/ \E i \in 1..MaxInFlight, r \in BOOLEAN : InvalidateResolves(i, r)

SpecCreate == Init /\ [][NextCreate]_vars

\* the sub-flow used while an apartment is being edited: the modal starts
\* open on the second apartment; the user ticks the first employees of
\* the list, submits, and uses the sub-form; the parent closes and reopens
\* the modal
EditedApartment == 2

InitSubFlow == Mounted(TRUE, EditedApartment)

NextSubFlow ==
  \/ \E o \in BOOLEAN : SetProps(o, EditedApartment)
  \/ \E b \in CloseButtons : ClickClose(b)
  \/ \E i \in 1..NumEmployees : ToggleCheckbox(i)
  \/ HandleSubmit
  \/ ToggleAddEmployee
  \/ TypeNewEmployee
  \/ handleAddNewEmployee
  \/ \E i \in 1..MaxInFlight : ApiRequestResolves(i)
  \/ \E i \in 1..MaxInFlight, m \in ErrorMessages : ApiRequestRejects(i, m)
  \/ \E i \in 1..MaxInFlight, r \in BOOLEAN : InvalidateResolves(i, r)

SpecSubFlow == InitSubFlow /\ [][NextSubFlow]_vars

\* --------------------------------------------- statistics view: steps
ModalUnchanged ==
  UNCHANGED <<isOpen, apartment, employees, form, employeeSearch,
              showAddEmployee, newEmployee, inflight, calls, vform, vcalls,
              card>>

\* the query after the library has started a fetch: a query without data
\* goes back to pending, a query with data keeps its status and data
Fetching(q) ==
  IF q.data = Undefined
  THEN [q EXCEPT !.fetchStatus = "fetching", !.status = "pending"]
  ELSE [q EXCEPT !.fetchStatus = "fetching"]

\* The user visits the statistics page: useQuery subscribes and the library
\* fetches when the query has no data, and may refetch when it has.
VisitStatistics(refetch) ==
  /\ ~viewMounted
  /\ viewMounted' = TRUE
  /\ query' = IF query.fetchStatus = "idle"
                 /\ (query.data = Undefined \/ refetch)
              THEN Fetching(query)
              ELSE query
  /\ refetch => (query.data # Undefined /\ query.fetchStatus = "idle")
  /\ last' = [op |-> "visit", refetch |-> query' # query]
  /\ ModalUnchanged

\* The user leaves the page; the query stays in the cache.
LeaveStatistics ==
  /\ viewMounted
  /\ viewMounted' = FALSE
  /\ query' = query
  /\ last' = [op |-> "leave"]
  /\ ModalUnchanged

\* The fetch resolves with d.
FetchResolves(d) ==
  /\ query.fetchStatus = "fetching"
  /\ query' = [status |-> "success", fetchStatus |-> "idle", data |-> d]
  /\ UNCHANGED viewMounted
  /\ last' = [op |-> "resolve"]
  /\ ModalUnchanged

\* The fetch rejects; data of an earlier success stays in the query.
FetchRejects ==
  /\ query.fetchStatus = "fetching"
  /\ query' = [query EXCEPT !.status = "error", !.fetchStatus = "idle"]
  /\ UNCHANGED viewMounted
  /\ last' = [op |-> "reject"]
  /\ ModalUnchanged

\* The library refetches on its own policy (invalidation by another page,
\* window focus, reconnect).
LibraryRefetch ==
  /\ viewMounted
  /\ query.fetchStatus = "idle"
  /\ query' = Fetching(query)
  /\ UNCHANGED viewMounted
  /\ last' = [op |-> "refetch"]
  /\ ModalUnchanged

InitStats == Mounted(FALSE, NoApartment)

NextStats ==
  \/ \E r \in BOOLEAN : VisitStatistics(r)
  \/ LeaveStatistics
  \/ \E d \in Snapshots \cup {NullData} : FetchResolves(d)
  \/ FetchRejects
  \/ LibraryRefetch

SpecStats == InitStats /\ [][NextStats]_vars

\* --------------------------------------------------------- employee card
\* the employees a card can show: apartments holds the assigned apartments
CardEmployees ==
  [id : 1..MaxEmployees,
   first_name : {<<>>, <<"A","l">>, <<"a","B">>},
   last_name : {<<"B","o">>, <<"L","a">>, <<"l">>},
   apartments : {[i \in 1..n |-> i] : n \in 0..MaxCount}]

\* const fullName = `${employee.first_name} ${employee.last_name}`
fullName(employee) == employee.first_name \o <<" ">> \o employee.last_name

\* const assignmentCount = employee.apartments.length
assignmentCount(employee) == Len(employee.apartments)

\* the label with the singular chosen for every count up to 1
assignmentLabel_UpToOne(count) ==
  IF count <= 1 THEN "ordine assegnato" ELSE "ordini assegnati"

\* {assignmentCount === 1 ? 'ordine assegnato' : 'ordini assegnati'}
assignmentLabel(count) ==
  IF count = 1 THEN "ordine assegnato" ELSE "ordini assegnati"

\* handleDelete without e.stopPropagation()
handleDelete_NoStop(c) ==
  [stopped |-> FALSE,
   calls |-> <<[fn |-> "onDelete",
                arg |-> [id |-> c.employee.id,
                         name |-> fullName(c.employee)]]>>]

\* handleDelete: the click handler of the delete button
handleDelete(c) ==
  [stopped |-> TRUE,
   calls |-> <<[fn |-> "onDelete",
                arg |-> [id |-> c.employee.id,
                         name |-> fullName(c.employee)]]>>]

\* onClick of the outer div: the optional onClick prop
divOnClick(c) ==
  [stopped |-> FALSE,
   calls |-> IF c.hasOnClick
             THEN <<[fn |-> "onClick", arg |-> [node |-> "div"]]>>
             ELSE <<>>]

\* the elements a click on target bubbles through, innermost first
BubblePath(target) ==
  IF target = "deleteButton" THEN <<"deleteButton", "div">> ELSE <<"div">>

\* the click handler the card puts on an element
ClickHandler(c, node) ==
  IF node = "deleteButton" THEN handleDelete(c) ELSE divOnClick(c)

\* the calls made while a click bubbles along path, until a handler stops
\* the propagation
RECURSIVE Dispatch(_, _)
Dispatch(c, path) ==
  IF path = <<>> THEN <<>>
  ELSE LET h == ClickHandler(c, Head(path))
       IN h.calls \o (IF h.stopped THEN <<>> ELSE Dispatch(c, Tail(path)))

InitCard ==
  /\ isOpen = FALSE
  /\ apartment = NoApartment
  /\ employees = InitialEmployees
  /\ form = FormValues(NoApartment)
  /\ vform = VFormValues(NoApartment)
  /\ employeeSearch = <<>>
  /\ showAddEmployee = FALSE
  /\ newEmployee = EmptyEmployee
  /\ inflight = <<>>
  /\ calls = NoCalls
  /\ vcalls = NoCalls
  /\ last = [op |-> "mount"]
  /\ query = NoQuery
  /\ viewMounted = FALSE
  /\ card \in [employee : CardEmployees, hasOnClick : BOOLEAN]

\* The user clicks the delete button or the card outside of it.
ClickCard(target) ==
  /\ calls' = Dispatch(card, BubblePath(target))
  /\ last' = [op |-> "click", target |-> target]
  /\ UNCHANGED <<isOpen, apartment, employees, form, employeeSearch,
                 showAddEmployee, newEmployee, inflight, vform, vcalls,
                 query, viewMounted, card>>

NextCard == \E target \in {"deleteButton", "div"} : ClickCard(target)

SpecCard == InitCard /\ [][NextCard]_vars

\* the employee page with its cards and the statistics page, side by side
NextLabels == NextCard \/ NextStats

SpecLabels == InitCard /\ [][NextLabels]_vars

\* ----------------------------------------------- the search filter alone
FilterFirstNames == {<<>>, <<"A","l">>, <<"a","B">>}
FilterLastNames  == {<<"B","o">>, <<"L","a">>, <<"l">>}
FilterSearches ==
  {<<>>, <<"a","l">>, <<"A","L">>, <<"l"," ","B">>, <<"b">>, <<" ">>,
   <<"o","b">>, <<"l","b">>, <<"L","A">>}

\* employee lists of length at most n, ids by position
RECURSIVE EmployeeLists(_)
EmployeeLists(n) ==
  IF n = 0 THEN {<<>>}
  ELSE EmployeeLists(n - 1) \cup
       {Append(l, [id |-> n, first_name |-> f, last_name |-> g]) :
          l \in {t \in EmployeeLists(n - 1) : Len(t) = n - 1},
          f \in FilterFirstNames, g \in FilterLastNames}

InitFilter ==
  /\ isOpen = TRUE
  /\ apartment = NoApartment
  /\ employees \in EmployeeLists(MaxEmployees)
  /\ form = FormValues(NoApartment)
  /\ vform = VFormValues(NoApartment)
  /\ employeeSearch = <<>>
  /\ showAddEmployee = FALSE
  /\ newEmployee = EmptyEmployee
  /\ inflight = <<>>
  /\ calls = NoCalls
  /\ vcalls = NoCalls
  /\ last = [op |-> "mount"]
  /\ query = NoQuery
  /\ viewMounted = FALSE
  /\ card = NoCard

NextFilter == \E s \in FilterSearches : setEmployeeSearch(s)

SpecFilter == InitFilter /\ [][NextFilter]_vars

\* ------------------------------------------- the checkbox handler alone
\* arrays of employee ids of length at most n, duplicates included
RECURSIVE IdArrays(_)
IdArrays(n) ==
  IF n = 0 THEN {<<>>}
  ELSE IdArrays(n - 1) \cup
       {Append(s, id) : s \in {t \in IdArrays(n - 1) : Len(t) = n - 1},
                        id \in 1..MaxEmployees}

NoHandlerCall == [op |-> "none"]

InitToggle ==
  /\ \E s \in IdArrays(MaxLen) :
        /\ form = [FormValues(NoApartment) EXCEPT !.employee_ids = s]
        /\ vform = [VFormValues(NoApartment) EXCEPT !.employee_ids = s]
  /\ isOpen = TRUE
  /\ apartment = NoApartment
  /\ employees = InitialEmployees
  /\ employeeSearch = <<>>
  /\ showAddEmployee = FALSE
  /\ newEmployee = EmptyEmployee
  /\ inflight = <<>>
  /\ calls = NoCalls
  /\ vcalls = NoCalls
  /\ last = [op |-> "none", prev |-> NoHandlerCall]
  /\ query = NoQuery
  /\ viewMounted = FALSE
  /\ card = NoCard

\* onCheckedChange(checked) of the checkbox of employee id, called on the
\* current field value whatever it holds
CallOnCheckedChange(id, checked) ==
  /\ checked => Len(form.employee_ids) < MaxLen
  /\ form' = [form EXCEPT !.employee_ids =
                onCheckedChange(form.employee_ids, id, checked)]
  /\ vform' = [vform EXCEPT !.employee_ids =
                VOnCheckedChange(vform.employee_ids, id, checked)]
  /\ StatsUnchanged
  /\ last' = [op |-> "handler", id |-> id, checked |-> checked,
              before |-> form.employee_ids,
              prev |-> IF last.op = "handler"
                       THEN [op |-> "handler", id |-> last.id,
                             checked |-> last.checked,
                             before |-> last.before]
                       ELSE NoHandlerCall]
  /\ UNCHANGED <<isOpen, apartment, employees, employeeSearch,
                 showAddEmployee, newEmployee, inflight, calls, vcalls>>

NextToggle ==
  \E id \in 1..MaxEmployees, checked \in BOOLEAN :
     CallOnCheckedChange(id, checked)

SpecToggle == InitToggle /\ [][NextToggle]_vars

\* ==================================================================
\* Properties
\* ==================================================================
Count(arr, x) == Cardinality({i \in 1..Len(arr) : arr[i] = x})

NoDuplicates(arr) ==
  \A i, j \in 1..Len(arr) : arr[i] = arr[j] => i = j

\* arr with every element equal to x dropped, order kept
RECURSIVE Without(_, _)
Without(arr, x) ==
  IF arr = <<>> THEN <<>>
  ELSE IF Head(arr) = x THEN Without(Tail(arr), x)
  ELSE <<Head(arr)>> \o Without(Tail(arr), x)

\* ids of the checked checkboxes of the variant, which lists every employee
VCheckedIds ==
  {e.id : e \in {x \in Range(employees) :
                   ArrIncludes(vform.employee_ids, x.id)}}

\* C1 as stated: in every reachable state of the open form employee_ids has
\* no duplicate id and is exactly the set of ids of the checked checkboxes.
C1_AsStated ==
  isOpen => /\ NoDuplicates(form.employee_ids)
            /\ Range(form.employee_ids) = CheckedIds

\* C1 (amended): employee_ids never holds a duplicate id; every checked
\* checkbox is in employee_ids; an id of employee_ids without a checked
\* checkbox belongs to an employee the search filter hides; with an empty
\* search text employee_ids is exactly the set of checked checkboxes, as it
\* always is in the variant without a search field.
C1_CheckedReflectsIds ==
  /\ NoDuplicates(form.employee_ids)
  /\ NoDuplicates(vform.employee_ids)
  /\ isOpen =>
       /\ CheckedIds \subseteq Range(form.employee_ids)
       /\ \A id \in Range(form.employee_ids) \ CheckedIds :
             id \notin DisplayedIds
       /\ employeeSearch = <<>> => Range(form.employee_ids) = CheckedIds
       /\ Range(vform.employee_ids) = VCheckedIds

\* an employee was checked while another checked employee is hidden
C1_Witness ==
  /\ isOpen
  /\ last.op = "toggle"
  /\ last.checked
  /\ \E id \in Range(form.employee_ids) : id \notin DisplayedIds

\* C2: called with checked = true the handler appends exactly one
\* occurrence of the id and keeps the rest; called with checked = false it
\* drops every occurrence of the id and keeps the other ids in order; two
\* successive toggles of one checkbox (the first reporting the negation of
\* its checked state) give back the original set of ids.  The variant's
\* handler computes the same array.
C2_HandlerAlgebra ==
  last.op = "handler" =>
    LET b == last.before
        a == form.employee_ids
        e == last.id
    IN /\ vform.employee_ids = a
       /\ last.checked =>
            /\ Len(a) = Len(b) + 1
            /\ SubSeq(a, 1, Len(b)) = b
            /\ a[Len(a)] = e
            /\ Count(a, e) = Count(b, e) + 1
       /\ ~last.checked =>
            /\ Count(a, e) = 0
            /\ a = Without(b, e)
            /\ \A x \in Range(b) \ {e} : Count(a, x) = Count(b, x)
       /\ ( /\ last.prev.op = "handler"
            /\ last.prev.id = e
            /\ last.prev.checked = ~ArrIncludes(last.prev.before, e)
            /\ last.checked = ~last.prev.checked )
          => Range(a) = Range(last.prev.before)

\* an uncheck that removed two occurrences, right after a check
C2_Witness ==
  /\ last.op = "handler"
  /\ ~last.checked
  /\ Count(last.before, last.id) >= 2
  /\ last.prev.op = "handler"
  /\ last.prev.id = last.id
  /\ last.prev.checked

\* the value reset installs for apartment b, field by field
Shown(b, f, default) ==
  IF Apartments[b][f] = Null THEN default ELSE Apartments[b][f]

ShownValues(b) ==
  [name |-> Shown(b, "name", ""),
   cleaning_date |-> Shown(b, "cleaning_date", ""),
   start_time |-> Shown(b, "start_time", ""),
   end_time |-> Shown(b, "end_time", ""),
   status |-> Shown(b, "status", "Da Fare"),
   payment_status |-> Shown(b, "payment_status", "Da Pagare"),
   notes |-> Shown(b, "notes", ""),
   employee_ids |-> Apartments[b].employees]

\* C3: a step after which the modal is open on apartment B, and that opened
\* it or changed its target, leaves every form field at B's value (the
\* empty text for a time or note B lacks), in both variants.
C3_ResetShowsTarget ==
  [][ ( /\ isOpen'
        /\ apartment' # NoApartment
        /\ <<isOpen', apartment'>> # <<isOpen, apartment>> )
      => /\ form' = ShownValues(apartment')
         /\ vform' = ShownValues(apartment') ]_vars

\* the target changed from A to B while the modal was open on edited values
C3_Witness ==
  /\ last.op = "props"
  /\ isOpen
  /\ last.wasOpen
  /\ last.dirty
  /\ last.from # NoApartment
  /\ apartment # NoApartment
  /\ apartment # last.from
  /\ form = ShownValues(apartment)

\* the validation rules of the apartment form
SatisfiesRules(v) ==
  /\ v.name # ""
  /\ v.cleaning_date # ""
  /\ v.status \in StatusItems
  /\ v.payment_status \in PaymentItems

\* C4: onSubmit is called only by a submit of values that satisfy every
\* rule, with exactly the current form values, and a submit of such values
\* does call it; a submit with an empty name or date calls nothing.
C4_SubmitOnlyValid ==
  /\ \A i \in 1..Len(calls) :
        calls[i].fn = "onSubmit" =>
          /\ last.op = "submit"
          /\ calls[i].arg = form
          /\ SatisfiesRules(form)
  /\ \A i \in 1..Len(vcalls) :
        vcalls[i].fn = "onSubmit" =>
          /\ last.op = "submit"
          /\ vcalls[i].arg = vform
          /\ SatisfiesRules(vform)
  /\ last.op = "submit" =>
       /\ SatisfiesRules(form) => calls = <<[fn |-> "onSubmit", arg |-> form]>>
       /\ (form.name = "" \/ form.cleaning_date = "") => calls = <<>>

\* a submit that reached onSubmit
C4_Witness ==
  /\ last.op = "submit"
  /\ Len(calls) = 1
  /\ calls[1].fn = "onSubmit"
  /\ calls[1].arg = form

HasCall(cs, fn) == \E i \in 1..Len(cs) : cs[i].fn = fn

\* C5: a click on the add button while first_name or last_name is empty
\* sends no create request, invalidates nothing, shows the validation
\* notification and leaves the sub-form's values, its disclosure and
\* everything else as they were.
C5_BlankNameRejected ==
  [][ ( /\ last'.op = "add"
        /\ (newEmployee.first_name = <<>> \/ newEmployee.last_name = <<>>) )
      => /\ calls' = <<ValidationToast>>
         /\ ~HasCall(calls', "apiRequest")
         /\ ~HasCall(calls', "invalidateQueries")
         /\ UNCHANGED <<newEmployee, showAddEmployee, inflight, employees,
                        form, isOpen>> ]_vars

\* the add button was clicked with a first name and no last name
C5_Witness ==
  /\ last.op = "add"
  /\ newEmployee.first_name # <<>>
  /\ newEmployee.last_name = <<>>
  /\ showAddEmployee
  /\ calls = <<ValidationToast>>

\* C6: when the create request fails the error notification is shown, the
\* disclosure and both entered names are left as they were (an open
\* sub-form stays open), and no new request is sent: the failed call ends.
C6_FailureKeepsInput ==
  [][ last'.op = "postFail"
      => /\ \E m \in ErrorMessages : calls' = <<FailureToast(m)>>
         /\ UNCHANGED <<newEmployee, showAddEmployee>>
         /\ showAddEmployee => showAddEmployee'
         /\ ~HasCall(calls', "apiRequest")
         /\ Len(inflight') = Len(inflight) - 1
         /\ \A j \in 1..Len(inflight') :
               \E k \in 1..Len(inflight) : inflight[k] = inflight'[j] ]_vars

\* a request failed while the sub-form was open with both names entered
C6_Witness ==
  /\ last.op = "postFail"
  /\ showAddEmployee
  /\ newEmployee.first_name # <<>>
  /\ newEmployee.last_name # <<>>
  /\ calls = <<FailureToast("500: boom")>>

\* C7: the create request is sent only by a click that found both names
\* non-empty, with those names as its body, and that click neither
\* invalidates nor resets; the employee list is invalidated only by the
\* step in which a sent request succeeds; the sub-form is reset by the
\* program only in the step that ends an invalidation, i.e. after the
\* request succeeded and the invalidation that followed it.
C7_CreationOrder ==
  [][ /\ HasCall(calls', "apiRequest") =>
           /\ last'.op = "add"
           /\ Len(newEmployee.first_name) >= 1
           /\ Len(newEmployee.last_name) >= 1
           /\ calls' = <<PostEmployee([first_name |-> newEmployee.first_name,
                                       last_name |-> newEmployee.last_name])>>
           /\ inflight' = Append(inflight,
                                 [body |-> newEmployee, pc |-> "post"])
           /\ UNCHANGED <<newEmployee, showAddEmployee, employees>>
      /\ HasCall(calls', "invalidateQueries") =>
           /\ last'.op = "postOk"
           /\ \E i \in 1..Len(inflight) :
                 /\ inflight[i].pc = "post"
                 /\ inflight' = [inflight EXCEPT ![i].pc = "invalidate"]
           /\ UNCHANGED <<newEmployee, showAddEmployee, employees>>
      /\ last'.op = "created" =>
           /\ \E i \in 1..Len(inflight) :
                 /\ inflight[i].pc = "invalidate"
                 /\ inflight' = RemoveAt(inflight, i)
           /\ newEmployee' = EmptyEmployee
           /\ ~showAddEmployee'
           /\ calls' = <<SuccessToast>>
      /\ (newEmployee' # newEmployee /\ last'.op # "type") =>
           last'.op = "created"
      /\ employees' # employees => last'.op = "created" ]_vars

\* a creation ran to its end: the list was refetched with the new employee
\* and the sub-form was reset
C7_Witness ==
  /\ last.op = "created"
  /\ last.refetched
  /\ Len(employees) > NumEmployees
  /\ newEmployee = EmptyEmployee
  /\ ~showAddEmployee
  /\ calls = <<SuccessToast>>

\* c and d are the same letter up to case
SameLetter(c, d) ==
  \/ c = d
  \/ \E p \in {<<"A","a">>, <<"B","b">>, <<"L","l">>, <<"O","o">>} :
        {c, d} = {p[1], p[2]}

\* "first last" of e contains q as a substring, letter case ignored
ContainsIgnoringCase(e, q) ==
  LET full == e.first_name \o <<" ">> \o e.last_name
  IN \E k \in 0..(Len(full) - Len(q)) :
        \A j \in 1..Len(q) : SameLetter(full[k + j], q[j])

\* the elements of emps that contain q, in the order of emps
RECURSIVE KeepMatching(_, _)
KeepMatching(emps, q) ==
  IF emps = <<>> THEN <<>>
  ELSE (IF ContainsIgnoringCase(Head(emps), q) THEN <<Head(emps)>> ELSE <<>>)
       \o KeepMatching(Tail(emps), q)

\* C8: the checklist shows exactly the employees whose "first last" name
\* contains the search text, letter case ignored, in the order of the
\* employee list; with an empty search text it shows the whole list.
C8_FilterBySubstring ==
  /\ filteredEmployees(employees, employeeSearch)
       = KeepMatching(employees, employeeSearch)
  /\ employeeSearch = <<>> =>
       filteredEmployees(employees, employeeSearch) = employees

\* an upper-case search text kept some employees and dropped others
C8_Witness ==
  /\ last.op = "search"
  /\ employeeSearch = <<"A","L">>
  /\ Len(filteredEmployees(employees, employeeSearch)) >= 1
  /\ Len(filteredEmployees(employees, employeeSearch)) < Len(employees)
  /\ \E i \in 1..Len(employees) : employees[i].first_name = <<"A","l">>

\* C9: the mounted statistics view shows exactly one of the loading
\* indicator, the error message and the metric cards with the charts: the
\* loading indicator exactly while the query is pending (no data yet, fetch
\* running), the error message exactly when it is not pending and the fetch
\* failed or brought no data, the cards and charts exactly when the fetch
\* succeeded with a snapshot.
C9_ThreeDisplayStates ==
  viewMounted =>
    LET shown == Statistics(query)
        pending == query.status = "pending" /\ query.fetchStatus = "fetching"
        nodata == query.data \notin Snapshots
    IN /\ shown \in {{"loadingIndicator"}, {"errorMessage"},
                     {"metricCards", "charts"}}
       /\ ("loadingIndicator" \in shown) = pending
       /\ ("errorMessage" \in shown) =
            (~pending /\ (query.status = "error" \/ nodata))
       /\ ("metricCards" \in shown) =
            (query.status = "success" /\ query.data \in Snapshots)

\* a query that failed without data is being fetched again: the view is
\* back on the loading indicator
C9_Witness ==
  /\ viewMounted
  /\ last.op = "refetch"
  /\ query.status = "pending"
  /\ query.data = Undefined
  /\ Statistics(query) = {"loadingIndicator"}

\* C10: while the query is in the failed state the mounted view shows the
\* error message and nothing else, also when the query still holds the
\* snapshot of an earlier success; and a fetch that starts from the failed
\* state is started by a new visit of the page or by the library's own
\* refetch policy, never by the view.
C10_FailedShowsOnlyError ==
  /\ [](  (viewMounted /\ query.status = "error")
         => Statistics(query) = {"errorMessage"} )
  /\ [][ ( /\ query.status = "error"
           /\ query.fetchStatus = "idle"
           /\ query'.fetchStatus = "fetching" )
         => last'.op \in {"visit", "refetch"} ]_vars

\* the fetch failed while the snapshot of an earlier success is still held
C10_Witness ==
  /\ viewMounted
  /\ last.op = "reject"
  /\ query.status = "error"
  /\ query.data \in Snapshots
  /\ Statistics(query) = {"errorMessage"}

\* C11: a click on the delete button calls onDelete exactly once, with the
\* employee's id and the name "first_name last_name", and does not reach the
\* card's onClick; a click elsewhere on the card calls onClick (when the
\* caller supplied one) and never onDelete.
C11_DeleteDoesNotOpen ==
  last.op = "click" =>
    /\ last.target = "deleteButton" =>
         /\ Len(calls) = 1
         /\ calls[1].fn = "onDelete"
         /\ calls[1].arg.id = card.employee.id
         /\ calls[1].arg.name =
              card.employee.first_name \o <<" ">> \o card.employee.last_name
         /\ \A i \in 1..Len(calls) : calls[i].fn # "onClick"
    /\ last.target = "div" =>
         /\ \A i \in 1..Len(calls) : calls[i].fn # "onDelete"
         /\ Len(calls) = (IF card.hasOnClick THEN 1 ELSE 0)
         /\ card.hasOnClick => calls[1].fn = "onClick"

\* the delete button of a card that has an onClick handler was clicked
C11_Witness ==
  /\ last.op = "click"
  /\ last.target = "deleteButton"
  /\ card.hasOnClick
  /\ Len(calls) = 1
  /\ calls[1].fn = "onDelete"

\* C12: for every count, the assignment label of the employee card and the
\* top-employee and busiest-day labels of the statistics view are the
\* singular form exactly when the count is 1, and the plural form for every
\* other count, 0 included.
C12_SingularOnlyForOne ==
  /\ LET n == Len(card.employee.apartments)
         label == assignmentLabel(assignmentCount(card.employee))
     IN /\ n = 1 => label = "ordine assegnato"
        /\ n # 1 => label = "ordini assegnati"
  /\ (viewMounted /\ "metricCards" \in Statistics(query)) =>
       /\ query.data.topEmployee.count = 1
            => topEmployeeLabel(query.data) = "ordine"
       /\ query.data.topEmployee.count # 1
            => topEmployeeLabel(query.data) = "ordini"
       /\ query.data.busiestDay.count = 1
            => busiestDayLabel(query.data) = "ordine"
       /\ query.data.busiestDay.count # 1
            => busiestDayLabel(query.data) = "ordini"

\* a card with no assignment next to statistics with a top count of 0 and a
\* busiest-day count of 1
C12_Witness ==
  /\ Len(card.employee.apartments) = 0
  /\ assignmentLabel(assignmentCount(card.employee)) = "ordini assegnati"
  /\ viewMounted
  /\ "metricCards" \in Statistics(query)
  /\ query.data.topEmployee.count = 0
  /\ topEmployeeLabel(query.data) = "ordini"
  /\ query.data.busiestDay.count = 1
  /\ busiestDayLabel(query.data) = "ordine"

\* C13: when the view shows a snapshot, the busiest-day value is exactly
\* "N/A" if busiestDay.date is "N/A", and no date is handed to the
\* formatter; otherwise it is the formatter's result for busiestDay.date,
\* which is the only text handed to the formatter.
C13_BusiestDayValue ==
  (viewMounted /\ "metricCards" \in Statistics(query)) =>
    LET d == query.data.busiestDay.date
        r == formattedBusiestDay(query.data)
    IN /\ d = "N/A" => (r.text = "N/A" /\ r.formatted = <<>>)
       /\ d # "N/A" => (r.text = formatDateForDisplay(d) /\ r.formatted = <<d>>)
       /\ \A i \in 1..Len(r.formatted) : r.formatted[i] # "N/A"

\* a snapshot whose busiest day is "N/A" is on screen
C13_Witness ==
  /\ viewMounted
  /\ "metricCards" \in Statistics(query)
  /\ query.data.busiestDay.date = "N/A"
  /\ formattedBusiestDay(query.data).text = "N/A"

\* C14: the two variants start with the same form values, and every step
\* (open, close, target change, field edit, checkbox toggle, submit) taken
\* with the search text empty before and after it from a state where they
\* hold the same values leaves them holding the same values and calling
\* onSubmit alike: both or neither, with the same values.
C14_VariantsAgree ==
  /\ (form = vform /\ calls = vcalls)
  /\ [][(employeeSearch = <<>> /\ employeeSearch' = <<>> /\ form = vform)
          => (form' = vform' /\ calls' = vcalls')]_vars

\* both variants have just called onSubmit with employee_ids the user has
\* changed by toggling, the search text being empty
C14_Witness ==
  /\ last.op = "submit"
  /\ employeeSearch = <<>>
  /\ calls = <<[fn |-> "onSubmit", arg |-> form]>>
  /\ vcalls = <<[fn |-> "onSubmit", arg |-> vform]>>
  /\ Len(form.employee_ids) >= 2
  /\ form.employee_ids # FormValues(apartment).employee_ids

\* the values the form takes when nothing is being edited
CreateDefaults ==
  [name |-> "", cleaning_date |-> "", start_time |-> "", end_time |-> "",
   notes |-> "", status |-> "Da Fare", payment_status |-> "Da Pagare",
   employee_ids |-> <<>>]

\* C15: every change of props after which the modal is open with no
\* apartment (opening in create mode, or going from an edited apartment to
\* none while open) leaves the form at the defaults: the five text fields
\* empty, status "Da Fare", payment_status "Da Pagare", employee_ids empty.
C15_CreateModeDefaults ==
  [][(isOpen' /\ apartment' = NoApartment
        /\ <<isOpen, apartment>> # <<isOpen', apartment'>>)
       => form' = CreateDefaults]_vars

\* create mode reached straight from an edit session whose form had been
\* modified
C15_Witness ==
  /\ last.op = "props"
  /\ isOpen
  /\ apartment = NoApartment
  /\ last.from # NoApartment
  /\ last.wasOpen
  /\ last.dirty
  /\ form = CreateDefaults

\* C17: a change of the search text leaves employee_ids as it was, and a
\* submission that passes validation hands onSubmit all of employee_ids,
\* the ids of the employees the filter hides included.
C17_SearchKeepsSelection ==
  /\ [][last'.op = "search" => form'.employee_ids = form.employee_ids]_vars
  /\ []((last.op = "submit" /\ calls # NoCalls)
          => calls[1].arg.employee_ids = form.employee_ids)

\* onSubmit has received the id of an employee the filter hides
C17_Witness ==
  /\ last.op = "submit"
  /\ calls # NoCalls
  /\ employeeSearch # <<>>
  /\ \E i \in 1..Len(calls[1].arg.employee_ids) :
       calls[1].arg.employee_ids[i] \notin DisplayedIds

\* C16: a step of the inline creation sub-flow (disclosure, typing a name,
\* the add click whether it passes validation or not, the request
\* succeeding or failing, the end of the invalidation) leaves isOpen, the
\* target apartment and every main-form value as they were, calls neither
\* onSubmit nor onClose, and an employee it adds to the list is not in
\* employee_ids.
C16_SubFlowLeavesForm ==
  [][last'.op \in {"disclose", "type", "add", "postOk", "postFail", "created"}
       => /\ UNCHANGED <<isOpen, apartment, form>>
          /\ ~HasCall(calls', "onSubmit")
          /\ ~HasCall(calls', "onClose")
          /\ \A j \in 1..Len(employees') :
               j > Len(employees)
                 => ~ArrIncludes(form'.employee_ids, employees'[j].id)]_vars

\* an employee was created while the open form held checkbox changes that
\* a reset would have lost
C16_Witness ==
  /\ last.op = "created"
  /\ last.refetched
  /\ isOpen
  /\ form # FormValues(apartment)
  /\ Len(employees) > NumEmployees
  /\ ~ArrIncludes(form.employee_ids, employees[Len(employees)].id)

\* C18: a click on the add button with both names non-empty sends exactly
\* one create request, whose body is the two names as they are at the
\* click, and adds that one request to those in flight, however many
\* earlier requests are still waiting for their response.
C18_EveryClickSends ==
  [][(/\ last'.op = "add"
      /\ newEmployee.first_name # <<>>
      /\ newEmployee.last_name # <<>>)
       => /\ Cardinality({j \in 1..Len(calls') :
                            calls'[j].fn = "apiRequest"}) = 1
          /\ \A j \in 1..Len(calls') :
               calls'[j].fn = "apiRequest"
                 => calls'[j].arg.data =
                      [first_name |-> newEmployee.first_name,
                       last_name |-> newEmployee.last_name]
          /\ Len(inflight') = Len(inflight) + 1
          /\ SubSeq(inflight', 1, Len(inflight)) = inflight
          /\ inflight'[Len(inflight')].body = newEmployee]_vars

\* as many clicks as the bound allows, none of them answered yet
C18_Witness ==
  /\ last.op = "add"
  /\ Len(inflight) = MaxInFlight
  /\ MaxInFlight >= 2
  /\ \A j \in 1..Len(inflight) : inflight[j].pc = "post"
  /\ HasCall(calls, "apiRequest")

\* C19: the step that ends a successful creation leaves both names of the
\* sub-form empty and the sub-form closed, whatever they were before it;
\* names typed while the request was in flight and a sub-form opened
\* again are overwritten.
C19_SuccessOverwrites ==
  /\ [][last'.op = "created"
          => (/\ newEmployee'.first_name = <<>>
              /\ newEmployee'.last_name = <<>>
              /\ showAddEmployee' = FALSE)]_vars
  /\ [](last.op = "created" => (newEmployee = EmptyEmployee /\ ~showAddEmployee))

\* the reset removed names that were typed after the click, in an open
\* sub-form
C19_Witness ==
  /\ last.op = "created"
  /\ last.overwrote
  /\ newEmployee = EmptyEmployee
  /\ ~showAddEmployee

\* C20: a change of props that leaves the modal open clears the search
\* text and collapses the sub-form; the two names of the sub-form are left
\* as they were by every change of props (open, close, other target), by
\* the disclosure button and by the search input, and go from non-empty to
\* empty only when a creation succeeds or the user empties them by typing.
C20_NamesSurviveReset ==
  [][/\ (last'.op = "props" /\ isOpen')
          => (employeeSearch' = <<>> /\ ~showAddEmployee')
     /\ last'.op \in {"props", "disclose", "search"}
          => newEmployee' = newEmployee
     /\ (newEmployee # EmptyEmployee /\ newEmployee' = EmptyEmployee)
          => last'.op \in {"created", "type"}]_vars

\* the modal opened or changed target with a search text and an open
\* sub-form: both were reset and the typed first name is still there
C20_Witness ==
  /\ last.op = "props"
  /\ last.cleared
  /\ isOpen
  /\ employeeSearch = <<>>
  /\ ~showAddEmployee
  /\ newEmployee.first_name # <<>>

====
